---- MODULE Spec2Model ----
(***************************************************************************)
(* Excel ingestion pipeline of be-test: the Bull queue 'excel-processing', *)
(* the worker handler BullJobQueue.handleExcelJob, the coordinator         *)
(* operations of FileProcessingService and the retry / delete endpoints    *)
(* of FileController, over the two Prisma tables fileProcessing and        *)
(* processedData.                                                          *)
(*                                                                         *)
(* One action is one database / queue call together with the synchronous  *)
(* code that runs after it up to the next await: Node runs a handler       *)
(* without interruption between two awaits.                                *)
(***************************************************************************)
EXTENDS Integers, Sequences, FiniteSets, TLC

\* ------------------------------------------------------------------ bounds
MaxUploads == 1        \* upload requests issued
MaxRetries == 2        \* POST /files/:id/retry requests issued
MaxDeletes == 1        \* DELETE /files/:id requests issued
MaxOutages == 1        \* times the Job Record Store becomes unavailable
NumUsers == 2          \* authenticated principals
WideRows == 10         \* data rows of the wide sheet
WideCols == 11         \* columns of the wide sheet
TallRows == 20         \* data rows of the tall sheet
MaxTicks == 3          \* half days a file's age is followed for
MaxReads == 1          \* list / data requests being served at a time
MaxPairUploads == 2    \* upload requests issued in the runs with two files

\* ------------------------------------------------------- program constants
attempts == 3          \* JobQueue.ts:71
batchSize == 100       \* JobQueue.ts:158
progressEvery == 10    \* JobQueue.ts:149
Concurrency == 2       \* one processing slot per queue.process call, JobQueue.ts:42-43
maxSize == 10485760    \* 10 * 1024 * 1024, FileProcessingService.ts:387
fileSize == 10485760   \* multer limits.fileSize, FileController.ts:14
dataRows == 50         \* default page size of getProcessedData, FileProcessingService.ts:210
dataMaxRows == 1000    \* its cap, FileProcessingService.ts:210
listRows == 10         \* default page size of getFileList, FileProcessingService.ts:129
listMaxRows == 100     \* its cap, FileProcessingService.ts:129

Users == 1..NumUsers
JobIds == 1..MaxUploads

\* nullable columns of the Prisma rows
Null == <<>>
Some(v) == <<v>>

\* FileProcessingStatus
PENDING == "PENDING"
IN_PROGRESS == "IN_PROGRESS"
COMPLETED == "COMPLETED"
FAILED == "FAILED"
CANCELLED == "CANCELLED"

\* FILE_MESSAGES.NO_DATA_FOUND and the messages of the other failures
NO_DATA_FOUND == "No data found in the Excel file"
READ_ERROR == "Cannot read file"
STORE_ERROR == "Can't reach database server"
QUEUE_ERROR == "connect ECONNREFUSED (redis)"
NOT_FOUND_ERROR == "Record to update not found"
FK_ERROR == "Foreign key constraint failed"

\* FILE_MESSAGES of the requests, and the controllers' own messages
FILE_NOT_FOUND == "File not found"
INVALID_FILE_TYPE == "Invalid file type. Only Excel files (.xlsx, .xls) are allowed"
FILE_TOO_LARGE == "File size exceeds the maximum limit of 10MB"
LIMIT_FILE_SIZE == "File too large"
FILE_UPLOADED == "File uploaded successfully"
PROCESSING_STARTED == "File processing started"
UPLOAD_IN_PROGRESS == "File upload in progress"
INTERNAL_ERROR == "Internal server error"
ONLY_FAILED == "File can only be retried if it failed"
STATUS_RETRIEVED == "File status retrieved successfully"
LIST_RETRIEVED == "File list retrieved successfully"
DATA_RETRIEVED == "Processed data retrieved successfully"
SKIP_ERROR == "Invalid value for skip argument: Value can only be positive"
NO_ROUTE == "Cannot POST /files/:id/cancel"
RETRY_STARTED == "File retry processing started"
RETRY_QUEUED == "File retry has been queued successfully"
FILE_DELETED == "File deleted successfully"
DELETED_ALL == "File and all its processed data have been deleted"

\* ------------------------------------------------------------- file names
\* A file name is the sequence of its characters.
\* String.prototype.toLowerCase, on the letters the names are made of
ToLowerCase(name) ==
    [k \in 1..Len(name) |->
        CASE name[k] = "X" -> "x"
          [] name[k] = "L" -> "l"
          [] name[k] = "S" -> "s"
          [] OTHER -> name[k]]

\* the index of the last "." of a name, 0 when it has none
LastDot(name) ==
    IF \E k \in 1..Len(name) : name[k] = "."
    THEN CHOOSE k \in 1..Len(name) :
             name[k] = "." /\ \A j \in (k + 1)..Len(name) : name[j] # "."
    ELSE 0

\* path.extname: from the last "." on; empty without a "." and for a name
\* that only starts with one
ExtName(name) ==
    IF LastDot(name) <= 1 THEN <<>> ELSE SubSeq(name, LastDot(name), Len(name))

\* SUPPORTED_EXCEL_EXTENSIONS
SUPPORTED_EXCEL_EXTENSIONS == {<<".", "x", "l", "s", "x">>, <<".", "x", "l", "s">>}

\* An upload: multer's file object with the workbook its buffer holds.
File(originalname, size, src) == [originalname |-> originalname, size |-> size, src |-> src]

\* the names and sizes uploads are tried with
OriginalNames ==
    {<<"a", ".", "x", "l", "s", "x">>, <<"a", ".", "X", "L", "S", "X">>,
     <<"a", ".", "x", "l", "s">>, <<"a", ".", "X", "l", "s">>,
     <<"a", ".", "c", "s", "v">>, <<"a", ".", "x", "l", "s", "x", ".", "c", "s", "v">>,
     <<".", "x", "l", "s", "x">>, <<"a">>}

Sizes == {maxSize - 1, maxSize, maxSize + 1}

\* the upload of a workbook under an accepted name and size
Workbook(src) == File(<<"a", ".", "x", "l", "s", "x">>, maxSize, src)

\* multer: the fileFilter, then the fileSize limit while the body is read;
\* the error handed to the callback, Null when there is none
MulterError(file) ==
    IF ToLowerCase(ExtName(file.originalname)) \notin SUPPORTED_EXCEL_EXTENSIONS
    THEN Some(INVALID_FILE_TYPE)
    ELSE IF file.size > fileSize THEN Some(LIMIT_FILE_SIZE)
    ELSE Null

\* A size check that also turns away a file of exactly the limit.
ValidateFileRejectsAtLimit(file) ==
    IF file.size >= maxSize THEN Some(FILE_TOO_LARGE)
    ELSE IF ToLowerCase(ExtName(file.originalname)) \notin SUPPORTED_EXCEL_EXTENSIONS
    THEN Some(INVALID_FILE_TYPE)
    ELSE Null

\* FileProcessingService.validateFile: the message it throws, Null when
\* the file passes
ValidateFile(file) ==
    IF file.size > maxSize THEN Some(FILE_TOO_LARGE)
    ELSE IF ToLowerCase(ExtName(file.originalname)) \notin SUPPORTED_EXCEL_EXTENSIONS
    THEN Some(INVALID_FILE_TYPE)
    ELSE Null

\* ------------------------------------------------------------ spreadsheets
\* A cell as xlsx.utils.sheet_to_json(ws, {header: 1}) yields it: its
\* typeof and its String(value).
Str(s) == [type |-> "string", text |-> s]
Num(s) == [type |-> "number", text |-> s]
Undef == [type |-> "undefined", text |-> "undefined"]

\* A blank test that lets the empty string through.
NotBlankKeepsEmptyString(value) == value.type \notin {"undefined", "null"}

\* value !== undefined && value !== null && value !== ''
NotBlank(value) ==
    /\ value.type # "undefined"
    /\ value.type # "null"
    /\ ~(value.type = "string" /\ value.text = "")

\* row[colIndex] of a JS array: undefined beyond its length
CellAt(row, colIndex) == IF colIndex <= Len(row) THEN row[colIndex] ELSE Undef

WideSheet ==
    <<[c \in 1..WideCols |-> Str(ToString(c))]>>
    \o [r \in 1..WideRows |-> [c \in 1..WideCols |-> Num(ToString(r))]]

TallSheet ==
    << <<Str("N")>> >> \o [r \in 1..TallRows |-> <<Num(ToString(r))>>]

\* The uploaded workbooks: what xlsx.readFile + sheet_to_json give for each.
Sheet(src) ==
    CASE src = "empty" -> <<>>
      [] src = "headerOnly" -> << <<Str("ID"), Str("Name")>> >>
      [] src = "aliceBob" -> << <<Str("ID"), Str("Name")>>,
                                <<Num("1"), Str("Alice")>>,
                                <<Str(""), Str("Bob")>> >>
      [] src = "dupHeader" -> << <<Str("A"), Str("A")>>,
                                 <<Num("1"), Num("2")>> >>
      [] src = "ragged" -> << <<Str("A"), Str("B")>>,
                              <<Num("1"), Num("2"), Num("3")>>,
                              <<Num("4")>> >>
      [] src = "wide" -> WideSheet
      [] src = "tall" -> TallSheet
      [] OTHER -> <<>>

Readable(src) == src # "corrupt"

Sources == {"empty", "dupHeader", "wide"}

\* the uploads of the extraction runs
ExtractSources ==
    {"empty", "headerOnly", "aliceBob", "dupHeader", "ragged", "wide", "corrupt"}

VARIABLES
    fileProcessing,   \* table fileProcessing: id -> row
    processedData,    \* table processedData: rows in insertion order
    uploads,          \* files of the uploads directory: path -> workbook
    queue,            \* Bull jobs of 'excel-processing', with the handler's locals
    requests,         \* HTTP requests being served
    issued,           \* requests received so far, per operation
    nextId,           \* autoincrement of fileProcessing.id
    storeUp,          \* whether the Job Record Store answers
    outages,          \* outages so far
    queueUp,          \* whether Redis, which holds the queue, answers
    age,              \* of each file of the uploads directory: the time since
                      \* its mtime, in milliseconds
    response,         \* the HTTP response this step put on the wire, or Null
    returned          \* what the service operation that ended in this step
                      \* returned or threw, or Null

vars == <<fileProcessing, processedData, uploads, queue, requests, issued, nextId, storeUp,
          outages, queueUp, age, response, returned>>

Init ==
    /\ fileProcessing = <<>>
    /\ nextId = 1
    /\ processedData = <<>>
    /\ uploads = <<>>
    /\ queue = <<>>
    /\ requests = <<>>
    /\ issued = [upload |-> 0, retry |-> 0, delete |-> 0]
    /\ storeUp = TRUE
    /\ outages = 0
    /\ queueUp = TRUE
    /\ age = <<>>
    /\ response = Null
    /\ returned = Null

\* a step of the worker or of the environment: no request is answered
Silent == response' = Null /\ returned' = Null

\* ------------------------------------------------------------ Prisma calls
\* prisma.fileProcessing.update({where: {id}, data}): throws when the store
\* is unreachable or no row has the id.
CanUpdate(id) == storeUp /\ id \in DOMAIN fileProcessing

UpdateError(id) == IF storeUp THEN NOT_FOUND_ERROR ELSE STORE_ERROR

\* A lookup by id alone, whoever owns the file.
FindFirstOfAnyUser(id, userId) ==
    IF id \in DOMAIN fileProcessing THEN Some(fileProcessing[id]) ELSE Null

\* prisma.fileProcessing.findFirst({where: {id, userId}})
FindFirst(id, userId) ==
    IF id \in DOMAIN fileProcessing /\ fileProcessing[id].userId = userId
    THEN Some(fileProcessing[id])
    ELSE Null

\* rows of processedData of one file
DataOf(id) == SelectSeq(processedData, LAMBDA d : d.fileProcessingId = id)

\* A delete that leaves the records of the file behind.
DeleteManyNone(id) == processedData

\* prisma.processedData.deleteMany({where: {fileProcessingId}})
DeleteMany(id) == SelectSeq(processedData, LAMBDA d : d.fileProcessingId # id)

\* ------------------------------------------------------------- Bull queue
\* queue.add(name, data, {attempts: 3, backoff}): a new job, waiting
NewJob(name, fileUrl, fileProcessingId) ==
    [name |-> name,
     data |-> [fileUrl |-> fileUrl, fileProcessingId |-> fileProcessingId],
     state |-> "waiting",
     attemptsMade |-> 0,
     pc |-> "idle",
     workbook |-> "none",
     rowIndex |-> 0,
     processedData |-> <<>>,
     processedCount |-> 0,
     i |-> 0,
     error |-> ""]

\* A submission that reaches the queue twice.
AddJobTwice(name, fileUrl, fileProcessingId) ==
    Append(Append(queue, NewJob(name, fileUrl, fileProcessingId)),
           NewJob(name, fileUrl, fileProcessingId))

AddJob(name, fileUrl, fileProcessingId) ==
    Append(queue, NewJob(name, fileUrl, fileProcessingId))

Active == {e \in DOMAIN queue : queue[e].state = "active"}

\* An off-by-one in the attempt budget: one attempt too many.
StateAfterFailureOffByOne(attemptsMade) ==
    IF attemptsMade <= attempts THEN "delayed" ELSE "failed"

\* What Bull does with a job whose handler threw, after counting the attempt:
\* back to the delayed set (exponential backoff) while attempts are left.
StateAfterFailure(attemptsMade) ==
    IF attemptsMade < attempts THEN "delayed" ELSE "failed"

\* A handler whose extraction failures discard the job instead of rethrowing.
MoveToFailedDiscardParseErrors(job) ==
    [job EXCEPT !.attemptsMade = @ + 1,
                !.state = IF job.error \in {NO_DATA_FOUND, READ_ERROR}
                          THEN "failed"
                          ELSE StateAfterFailure(job.attemptsMade + 1),
                !.pc = "idle",
                !.workbook = "none",
                !.rowIndex = 0,
                !.processedData = <<>>,
                !.processedCount = 0,
                !.i = 0,
                !.error = ""]

\* The handler threw: Bull counts the attempt and reschedules or gives up.
MoveToFailed(job) ==
    [job EXCEPT !.attemptsMade = @ + 1,
                !.state = StateAfterFailure(job.attemptsMade + 1),
                !.pc = "idle",
                !.workbook = "none",
                !.rowIndex = 0,
                !.processedData = <<>>,
                !.processedCount = 0,
                !.i = 0,
                !.error = ""]

\* The handler returned.
MoveToCompleted(job) ==
    [job EXCEPT !.state = "completed",
                !.pc = "idle",
                !.workbook = "none",
                !.rowIndex = 0,
                !.processedData = <<>>,
                !.processedCount = 0,
                !.i = 0,
                !.error = ""]

\* A processing slot takes a waiting job, or a delayed one whose backoff has
\* elapsed, and calls handleExcelJob, which runs to its first await.
Deliver(e) ==
    /\ queueUp
    /\ queue[e].state \in {"waiting", "delayed"}
    /\ Cardinality(Active) < Concurrency
    /\ queue' = [queue EXCEPT ![e].state = "active", ![e].pc = "setInProgress"]
    /\ UNCHANGED <<fileProcessing, processedData, uploads, requests, issued, nextId, storeUp, outages, queueUp, age>>
    /\ Silent

\* --------------------------------------------------------- handleExcelJob
\* A handler that works on the file of the first queue job, whatever its own.
FileProcessingIdOfFirstJob(job) == queue[1].data.fileProcessingId

\* const {fileUrl, fileProcessingId} = job.data: the id of every where clause
\* and of every record of the attempt
FileProcessingId(job) == job.data.fileProcessingId

\* retryCount = 0 unless job.data carries one; addJob's callers never set it.
RetryCountOf(data) == 0

\* A row numbering that counts the data rows only.
RowNumberFromFirstDataRow(rowIndex) == rowIndex

\* line 138: rowNumber: rowIndex + 1, where rowIndex is the index in data,
\* whose element 0 is the header row
RowNumberOf(rowIndex) == rowIndex + 1

\* The records of one source row: one per header column whose cell is not blank.
RECURSIVE RowRecords(_, _, _, _, _)
RowRecords(id, headers, row, rowIndex, colIndex) ==
    IF colIndex > Len(headers) THEN <<>>
    ELSE (IF NotBlank(CellAt(row, colIndex))
          THEN <<[fileProcessingId |-> id,
                  rowNumber |-> RowNumberOf(rowIndex),
                  columnName |-> headers[colIndex].text,
                  value |-> CellAt(row, colIndex).text,
                  dataType |-> CellAt(row, colIndex).type]>>
          ELSE <<>>)
         \o RowRecords(id, headers, row, rowIndex, colIndex + 1)

\* The row loop from rowIndex on, up to the next progress update (an await)
\* or the end of the sheet.  data[1] is the header, data[rowIndex + 1] the
\* row the code calls data[rowIndex].
RECURSIVE RunRows(_, _, _, _, _)
RunRows(id, data, rowIndex, pd, processedCount) ==
    IF rowIndex >= Len(data)
    THEN [rowIndex |-> rowIndex, processedData |-> pd,
          processedCount |-> processedCount, await |-> FALSE]
    ELSE LET pd2 == pd \o RowRecords(id, data[1], data[rowIndex + 1], rowIndex, 1)
             count2 == processedCount + 1
         IN IF count2 % progressEvery = 0
            THEN [rowIndex |-> rowIndex + 1, processedData |-> pd2,
                  processedCount |-> count2, await |-> TRUE]
            ELSE RunRows(id, data, rowIndex + 1, pd2, count2)

\* Where the handler stands after the row loop ran up to its next await.
AfterRows(job, run) ==
    [job EXCEPT !.rowIndex = run.rowIndex,
                !.processedData = run.processedData,
                !.processedCount = run.processedCount,
                !.i = 0,
                !.pc = IF run.await THEN "checkpoint"
                       ELSE IF Len(run.processedData) > 0 THEN "insert"
                       ELSE "complete"]

\* A check that lets a sheet without rows through.
NoDataIgnored(data) == FALSE

\* lines 110-112: !data || data.length === 0
NoData(data) == Len(data) = 0

\* throw: control passes to the catch block
Throw(job, message) == [job EXCEPT !.pc = "catch", !.error = message]

\* lines 96-116: status IN_PROGRESS, then the workbook is read and parsed
SetInProgress(e) ==
    LET job == queue[e]
        id == FileProcessingId(job)
        fileUrl == job.data.fileUrl
    IN
    /\ job.state = "active" /\ job.pc = "setInProgress"
    /\ IF CanUpdate(id)
       THEN /\ fileProcessing' = [fileProcessing EXCEPT
                   ![id].status = IN_PROGRESS,
                   ![id].retryCount = RetryCountOf(job.data)]
            /\ queue' = [queue EXCEPT ![e] =
                   IF fileUrl \notin DOMAIN uploads \/ ~Readable(uploads[fileUrl])
                   THEN Throw(job, READ_ERROR)
                   ELSE IF NoData(Sheet(uploads[fileUrl]))
                   THEN Throw(job, NO_DATA_FOUND)
                   ELSE [job EXCEPT !.workbook = uploads[fileUrl], !.pc = "setTotalRows"]]
       ELSE /\ queue' = [queue EXCEPT ![e] = Throw(job, UpdateError(id))]
            /\ UNCHANGED fileProcessing
    /\ UNCHANGED <<processedData, uploads, requests, issued, nextId, storeUp, outages, queueUp, age>>
    /\ Silent

\* A row count that leaves out the last data row too.
TotalRowsOffByOne(data) == Len(data) - 2

\* line 116: totalRows = data.length - 1, the header row excluded
TotalRows(data) == Len(data) - 1

\* lines 119-146: totalRows, then the row loop up to its first await
SetTotalRows(e) ==
    LET job == queue[e]
        id == FileProcessingId(job)
        data == Sheet(job.workbook)
    IN
    /\ job.state = "active" /\ job.pc = "setTotalRows"
    /\ IF CanUpdate(id)
       THEN /\ fileProcessing' = [fileProcessing EXCEPT ![id].totalRows = Some(TotalRows(data))]
            /\ queue' = [queue EXCEPT ![e] = AfterRows(job, RunRows(id, data, 1, <<>>, 0))]
       ELSE /\ queue' = [queue EXCEPT ![e] = Throw(job, UpdateError(id))]
            /\ UNCHANGED fileProcessing
    /\ UNCHANGED <<processedData, uploads, requests, issued, nextId, storeUp, outages, queueUp, age>>
    /\ Silent

\* lines 149-154: the progress update every 10 rows, then the loop goes on
Checkpoint(e) ==
    LET job == queue[e]
        id == FileProcessingId(job)
        data == Sheet(job.workbook)
    IN
    /\ job.state = "active" /\ job.pc = "checkpoint"
    /\ IF CanUpdate(id)
       THEN /\ fileProcessing' = [fileProcessing EXCEPT
                   ![id].processedRows = Some(job.processedCount)]
            /\ queue' = [queue EXCEPT ![e] =
                   AfterRows(job, RunRows(id, data, job.rowIndex,
                                          job.processedData, job.processedCount))]
       ELSE /\ queue' = [queue EXCEPT ![e] = Throw(job, UpdateError(id))]
            /\ UNCHANGED fileProcessing
    /\ UNCHANGED <<processedData, uploads, requests, issued, nextId, storeUp, outages, queueUp, age>>
    /\ Silent

\* A slice that stops one element early.
SliceOneShort(s, i, n) == SubSeq(s, i + 1, IF i + n - 1 < Len(s) THEN i + n - 1 ELSE Len(s))

\* processedData.slice(i, i + batchSize)
Slice(s, i, n) == SubSeq(s, i + 1, IF i + n < Len(s) THEN i + n ELSE Len(s))

\* An insert that does not check the foreign key.
CreateManyWithoutForeignKey(id) == storeUp

\* prisma.processedData.createMany({data: batch}): appends the rows; the
\* foreign key needs the fileProcessing row.
CanCreateMany(id) == storeUp /\ id \in DOMAIN fileProcessing

\* An insert that puts the batch in front of the stored rows.
CreateManyInFront(batch) == batch \o processedData

CreateMany(batch) == processedData \o batch

\* lines 158-164: one batch insert
InsertBatch(e) ==
    LET job == queue[e]
        id == FileProcessingId(job)
    IN
    /\ job.state = "active" /\ job.pc = "insert"
    /\ IF CanCreateMany(id)
       THEN /\ processedData' = CreateMany(Slice(job.processedData, job.i, batchSize))
            /\ queue' = [queue EXCEPT
                   ![e].i = job.i + batchSize,
                   ![e].pc = IF job.i + batchSize < Len(job.processedData)
                             THEN "insert" ELSE "complete"]
       ELSE /\ queue' = [queue EXCEPT ![e] =
                   Throw(job, IF storeUp THEN FK_ERROR ELSE STORE_ERROR)]
            /\ UNCHANGED processedData
    /\ UNCHANGED <<fileProcessing, uploads, requests, issued, nextId, storeUp, outages, queueUp, age>>
    /\ Silent

\* lines 167-177: status COMPLETED, and the handler returns
Complete(e) ==
    LET job == queue[e]
        id == FileProcessingId(job)
    IN
    /\ job.state = "active" /\ job.pc = "complete"
    /\ IF CanUpdate(id)
       THEN /\ fileProcessing' = [fileProcessing EXCEPT
                   ![id].status = COMPLETED,
                   ![id].processedRows = Some(job.processedCount),
                   ![id].completedAt = Some("now")]
            /\ queue' = [queue EXCEPT ![e] = MoveToCompleted(job)]
       ELSE /\ queue' = [queue EXCEPT ![e] = Throw(job, UpdateError(id))]
            /\ UNCHANGED fileProcessing
    /\ UNCHANGED <<processedData, uploads, requests, issued, nextId, storeUp, outages, queueUp, age>>
    /\ Silent

\* lines 179-191: the catch block writes FAILED and rethrows; when its own
\* update throws, that error leaves the handler instead.
Catch(e) ==
    LET job == queue[e]
        id == FileProcessingId(job)
    IN
    /\ job.state = "active" /\ job.pc = "catch"
    /\ IF CanUpdate(id)
       THEN fileProcessing' = [fileProcessing EXCEPT
                ![id].status = FAILED,
                ![id].errorMessage = Some(job.error)]
       ELSE UNCHANGED fileProcessing
    /\ queue' = [queue EXCEPT ![e] = MoveToFailed(job)]
    /\ UNCHANGED <<processedData, uploads, requests, issued, nextId, storeUp, outages, queueUp, age>>
    /\ Silent

\* ------------------------------------------------------------ HTTP requests
\* A request is in `requests` from the await it is suspended at until its
\* handler is over.
NewRequest(op, id, userId, pc) ==
    [op |-> op, id |-> id, userId |-> userId, pc |-> pc, fileUrl |-> 0,
     headersSent |-> FALSE, query |-> <<>>, data |-> <<>>, total |-> 0]

\* the handler is over
Respond(r) == SubSeq(requests, 1, r - 1) \o SubSeq(requests, r + 1, Len(requests))

\* res.status(code).json({success: false, message})
Failure(code, message) ==
    [status |-> code, body |-> [success |-> FALSE, message |-> message]]

\* response_success(res, content, message), in the shape the API
\* documentation shows
Success(content, message) ==
    [status |-> 200, body |-> [content |-> content, message |-> message, errors |-> <<>>]]

\* res.json on the response of a request: it goes on the wire, unless a
\* response was sent before (then res.json throws and nothing is sent)
Sent(req, r) ==
    IF req.headersSent THEN Null
    ELSE Some([op |-> req.op, id |-> req.id, userId |-> req.userId,
               status |-> r.status, body |-> r.body])

\* a service operation returns a value, or throws an Error with a message
Returns(req, value) ==
    Some([op |-> req.op, id |-> req.id, userId |-> req.userId, ok |-> TRUE, value |-> value])

Throws(req, message) ==
    Some([op |-> req.op, id |-> req.id, userId |-> req.userId, ok |-> FALSE, value |-> message])

\* prisma.fileProcessing.create of uploadAndProcessFile: a PENDING row
NewFileProcessing(userId, fileUrl) ==
    [userId |-> userId,
     fileUrl |-> fileUrl,
     status |-> PENDING,
     totalRows |-> Null,
     processedRows |-> Null,
     errorMessage |-> Null,
     retryCount |-> 0,
     completedAt |-> Null]

\* FileController.uploadFile and FileProcessingService.uploadAndProcessFile,
\* lines 29-54.  The controller starts multer and answers 202 at once, so
\* whatever the callback sends later finds the headers sent.  In the
\* callback the file passes multer and validateFile, is written under the
\* uploads directory and the row is created.  The path carries Date.now():
\* one per request.
UploadFile(file, userId) ==
    LET fileUrl == issued.upload + 1
        req == [NewRequest("upload", nextId, userId, "addJob") EXCEPT
                   !.fileUrl = fileUrl, !.headersSent = TRUE]
    IN
    /\ issued' = [issued EXCEPT !.upload = @ + 1]
    /\ response' = Sent(NewRequest("upload", 0, userId, "multer"),
                        [status |-> 202,
                         body |-> [success |-> TRUE, message |-> UPLOAD_IN_PROGRESS]])
    /\ IF MulterError(file) # Null
       THEN /\ returned' = Null
            /\ UNCHANGED <<uploads, age, fileProcessing, nextId, requests>>
       ELSE IF ValidateFile(file) # Null
       THEN /\ returned' = Throws(req, ValidateFile(file)[1])
            /\ UNCHANGED <<uploads, age, fileProcessing, nextId, requests>>
       ELSE /\ uploads' = uploads @@ (fileUrl :> file.src)
            /\ age' = age @@ (fileUrl :> 0)
            /\ IF storeUp
               THEN /\ fileProcessing' =
                           fileProcessing @@ (nextId :> NewFileProcessing(userId, fileUrl))
                    /\ nextId' = nextId + 1
                    /\ requests' = Append(requests, req)
                    /\ returned' = Null
               ELSE /\ returned' = Throws(req, STORE_ERROR)
                    /\ UNCHANGED <<fileProcessing, nextId, requests>>
    /\ UNCHANGED <<processedData, queue, storeUp, outages, queueUp>>

\* lines 57-65: addJob('process-excel'); the service returns the two ids,
\* and the controller's response_success finds the headers sent
UploadAddJob(r) ==
    LET req == requests[r]
        result == [jobId |-> Len(queue) + 1, fileProcessingId |-> req.id]
    IN
    /\ req.op = "upload" /\ req.pc = "addJob"
    /\ requests' = Respond(r)
    /\ IF queueUp
       THEN /\ queue' = AddJob("process-excel", req.fileUrl, req.id)
            /\ returned' = Returns(req, result)
            /\ response' = Sent(req, Success(result @@ [message |-> PROCESSING_STARTED],
                                             FILE_UPLOADED))
       ELSE /\ returned' = Throws(req, QUEUE_ERROR)
            /\ response' = Sent(req, Failure(500, QUEUE_ERROR))
            /\ UNCHANGED queue
    /\ UNCHANGED <<issued, fileProcessing, processedData, uploads, nextId, storeUp, outages, queueUp, age>>

\* FileController.retryFileProcessing, lines 204-222: getFileStatus and the
\* check that lets only a FAILED file through (404 and 400 otherwise)
RetryGetFileStatus(id, userId) ==
    LET req == NewRequest("retry", id, userId, "clearFind") IN
    /\ issued.retry < MaxRetries
    /\ issued' = [issued EXCEPT !.retry = @ + 1]
    /\ IF ~storeUp
       THEN /\ response' = Sent(req, Failure(500, INTERNAL_ERROR))
            /\ UNCHANGED requests
       ELSE IF FindFirst(id, userId) = Null
       THEN /\ response' = Sent(req, Failure(404, FILE_NOT_FOUND))
            /\ UNCHANGED requests
       ELSE IF fileProcessing[id].status # FAILED
       THEN /\ response' = Sent(req, Failure(400, ONLY_FAILED))
            /\ UNCHANGED requests
       ELSE /\ response' = Null
            /\ requests' = Append(requests, req)
    /\ returned' = Null
    /\ UNCHANGED <<fileProcessing, processedData, uploads, queue, nextId, storeUp, outages, queueUp, age>>

\* what a service operation throws when its ownership check fails
FindError == IF storeUp THEN FILE_NOT_FOUND ELSE STORE_ERROR

\* clearProcessedData, lines 268-277: the ownership check
ClearFind(r) ==
    LET req == requests[r] IN
    /\ req.op = "retry" /\ req.pc = "clearFind"
    /\ IF storeUp /\ FindFirst(req.id, req.userId) # Null
       THEN /\ requests' = [requests EXCEPT ![r].pc = "clearDelete"]
            /\ Silent
       ELSE /\ requests' = Respond(r)
            /\ returned' = Throws(req, FindError)
            /\ response' = Sent(req, Failure(500, INTERNAL_ERROR))
    /\ UNCHANGED <<issued, fileProcessing, processedData, uploads, queue, nextId, storeUp, outages, queueUp, age>>

\* clearProcessedData, lines 280-284: deleteMany
ClearDelete(r) ==
    LET req == requests[r] IN
    /\ req.op = "retry" /\ req.pc = "clearDelete"
    /\ IF storeUp
       THEN /\ processedData' = DeleteMany(req.id)
            /\ requests' = [requests EXCEPT ![r].pc = "retryFind"]
            /\ Silent
       ELSE /\ requests' = Respond(r)
            /\ returned' = Throws(req, STORE_ERROR)
            /\ response' = Sent(req, Failure(500, INTERNAL_ERROR))
            /\ UNCHANGED processedData
    /\ UNCHANGED <<issued, fileProcessing, uploads, queue, nextId, storeUp, outages, queueUp, age>>

\* FileProcessingService.retryFileProcessing, lines 299-308
RetryFind(r) ==
    LET req == requests[r] IN
    /\ req.op = "retry" /\ req.pc = "retryFind"
    /\ IF storeUp /\ FindFirst(req.id, req.userId) # Null
       THEN /\ requests' = [requests EXCEPT ![r].pc = "retryUpdate",
                                           ![r].fileUrl = fileProcessing[req.id].fileUrl]
            /\ Silent
       ELSE /\ requests' = Respond(r)
            /\ returned' = Throws(req, FindError)
            /\ response' = Sent(req, Failure(500, INTERNAL_ERROR))
    /\ UNCHANGED <<issued, fileProcessing, processedData, uploads, queue, nextId, storeUp, outages, queueUp, age>>

\* the row as retryFileProcessing's update leaves it
ResetRow(row) ==
    [row EXCEPT !.status = PENDING,
                !.errorMessage = Null,
                !.totalRows = Null,
                !.processedRows = Null,
                !.completedAt = Null]

\* lines 311-320: the row is reset to PENDING, whatever its status is now
RetryUpdate(r) ==
    LET req == requests[r] IN
    /\ req.op = "retry" /\ req.pc = "retryUpdate"
    /\ IF CanUpdate(req.id)
       THEN /\ fileProcessing' = [fileProcessing EXCEPT ![req.id] = ResetRow(@)]
            /\ requests' = [requests EXCEPT ![r].pc = "addJob"]
            /\ Silent
       ELSE /\ requests' = Respond(r)
            /\ returned' = Throws(req, UpdateError(req.id))
            /\ response' = Sent(req, Failure(500, INTERNAL_ERROR))
            /\ UNCHANGED fileProcessing
    /\ UNCHANGED <<issued, processedData, uploads, queue, nextId, storeUp, outages, queueUp, age>>

\* lines 323-332: addJob('process-excel-retry') and the response
RetryAddJob(r) ==
    LET req == requests[r]
        result == [jobId |-> Len(queue) + 1, fileProcessingId |-> req.id]
    IN
    /\ req.op = "retry" /\ req.pc = "addJob"
    /\ requests' = Respond(r)
    /\ IF queueUp
       THEN /\ queue' = AddJob("process-excel-retry", req.fileUrl, req.id)
            /\ returned' = Returns(req, result)
            /\ response' = Sent(req, Success(result @@ [message |-> RETRY_STARTED],
                                             RETRY_QUEUED))
       ELSE /\ returned' = Throws(req, QUEUE_ERROR)
            /\ response' = Sent(req, Failure(500, INTERNAL_ERROR))
            /\ UNCHANGED queue
    /\ UNCHANGED <<issued, fileProcessing, processedData, uploads, nextId, storeUp, outages, queueUp, age>>

\* FileController.deleteFile, lines 257-267: getFileStatus (404 when the
\* caller has no such file)
DeleteGetFileStatus(id, userId) ==
    LET req == NewRequest("delete", id, userId, "deleteFind") IN
    /\ issued.delete < MaxDeletes
    /\ issued' = [issued EXCEPT !.delete = @ + 1]
    /\ IF ~storeUp
       THEN /\ response' = Sent(req, Failure(500, INTERNAL_ERROR))
            /\ UNCHANGED requests
       ELSE IF FindFirst(id, userId) = Null
       THEN /\ response' = Sent(req, Failure(404, FILE_NOT_FOUND))
            /\ UNCHANGED requests
       ELSE /\ response' = Null
            /\ requests' = Append(requests, req)
    /\ returned' = Null
    /\ UNCHANGED <<fileProcessing, processedData, uploads, queue, nextId, storeUp, outages, queueUp, age>>

\* fs.unlinkSync(fileUrl) when the file exists
Unlink(fileUrl) == [f \in DOMAIN uploads \ {fileUrl} |-> uploads[f]]

\* FileProcessingService.deleteFile, lines 345-364: the ownership check and
\* the removal of the physical file, whose failure is logged and ignored
DeleteFind(r) ==
    LET req == requests[r] IN
    /\ req.op = "delete" /\ req.pc = "deleteFind"
    /\ IF storeUp /\ FindFirst(req.id, req.userId) # Null
       THEN /\ \E unlinked \in BOOLEAN :
                   uploads' = IF unlinked THEN Unlink(fileProcessing[req.id].fileUrl)
                              ELSE uploads
            /\ age' = [f \in DOMAIN uploads' |-> age[f]]
            /\ requests' = [requests EXCEPT ![r].pc = "deleteRow"]
            /\ Silent
       ELSE /\ requests' = Respond(r)
            /\ returned' = Throws(req, FindError)
            /\ response' = Sent(req, Failure(500, INTERNAL_ERROR))
            /\ UNCHANGED <<uploads, age>>
    /\ UNCHANGED <<issued, fileProcessing, processedData, queue, nextId, storeUp, outages, queueUp>>

\* lines 367-369: the row is deleted and its processedData with it (cascade)
DeleteRow(r) ==
    LET req == requests[r] IN
    /\ req.op = "delete" /\ req.pc = "deleteRow"
    /\ requests' = Respond(r)
    /\ IF CanUpdate(req.id)
       THEN /\ fileProcessing' = [j \in DOMAIN fileProcessing \ {req.id} |-> fileProcessing[j]]
            /\ processedData' = DeleteMany(req.id)
            /\ returned' = Returns(req, Null)
            /\ response' = Sent(req, Success([message |-> FILE_DELETED], DELETED_ALL))
       ELSE /\ returned' = Throws(req, UpdateError(req.id))
            /\ response' = Sent(req, Failure(500, INTERNAL_ERROR))
            /\ UNCHANGED <<fileProcessing, processedData>>
    /\ UNCHANGED <<issued, uploads, queue, nextId, storeUp, outages, queueUp, age>>

\* ----------------------------------------------------------- query strings
\* A query parameter is Null when missing, else Some(its characters).
DigitValue(c) ==
    CASE c = "0" -> 0 [] c = "1" -> 1 [] c = "2" -> 2 [] c = "3" -> 3 [] c = "4" -> 4
      [] c = "5" -> 5 [] c = "6" -> 6 [] c = "7" -> 7 [] c = "8" -> 8 [] c = "9" -> 9

IsDigit(c) == c \in {"0", "1", "2", "3", "4", "5", "6", "7", "8", "9"}

\* the value of the digits of s from position k on, up to the first
\* character that is no digit
RECURSIVE ParseDigits(_, _, _)
ParseDigits(s, k, acc) ==
    IF k > Len(s) \/ ~IsDigit(s[k]) THEN acc
    ELSE ParseDigits(s, k + 1, acc * 10 + DigitValue(s[k]))

\* parseInt: an optional sign and the leading digits; NaN (Null) without a
\* leading digit and for undefined
ParseInt(param) ==
    IF param = Null THEN Null
    ELSE LET str == param[1]
             start == IF Len(str) > 0 /\ str[1] \in {"-", "+"} THEN 2 ELSE 1
         IN IF start > Len(str) \/ ~IsDigit(str[start]) THEN Null
            ELSE IF str[1] = "-" THEN Some(0 - ParseDigits(str, start, 0))
            ELSE Some(ParseDigits(str, start, 0))

\* parseInt(x) || d: d for NaN and for 0
OrDefault(parsed, d) == IF parsed = Null \/ parsed = Some(0) THEN d ELSE parsed[1]

\* Math.min
Min(a, b) == IF a < b THEN a ELSE b

\* Math.ceil(total / rows), rows not 0
Ceil(total, rows) ==
    IF rows > 0 THEN (total + rows - 1) \div rows
    ELSE 0 - (total \div (0 - rows))

\* ---------------------------------------------------------- Prisma queries
\* the character codes of a column name: the order the store compares by
CharCodes(name) ==
    CASE name = "ID" -> <<73, 68>>
      [] name = "Name" -> <<78, 97, 109, 101>>
      [] name = "A" -> <<65>>
      [] name = "B" -> <<66>>
      [] OTHER ->
           LET n == CHOOSE k \in 1..99 : ToString(k) = name
           IN IF n < 10 THEN <<48 + n>> ELSE <<48 + (n \div 10), 48 + (n % 10)>>

RECURSIVE LexLess(_, _)
LexLess(a, b) ==
    IF b = <<>> THEN FALSE
    ELSE IF a = <<>> THEN TRUE
    ELSE IF a[1] # b[1] THEN a[1] < b[1]
    ELSE LexLess(Tail(a), Tail(b))

\* orderBy: [{rowNumber: 'asc'}, {columnName: 'asc'}]
Before(a, b) ==
    \/ a.rowNumber < b.rowNumber
    \/ a.rowNumber = b.rowNumber /\ LexLess(CharCodes(a.columnName), CharCodes(b.columnName))

RECURSIVE Merge(_, _)
Merge(a, b) ==
    IF a = <<>> THEN b
    ELSE IF b = <<>> THEN a
    ELSE IF Before(b[1], a[1]) THEN <<b[1]>> \o Merge(a, Tail(b))
    ELSE <<a[1]>> \o Merge(Tail(a), b)

RECURSIVE OrderBy(_)
OrderBy(rows) ==
    IF Len(rows) <= 1 THEN rows
    ELSE Merge(OrderBy(SubSeq(rows, 1, Len(rows) \div 2)),
               OrderBy(SubSeq(rows, Len(rows) \div 2 + 1, Len(rows))))

Reverse(rows) == [k \in 1..Len(rows) |-> rows[Len(rows) + 1 - k]]

\* The rows in the order of the orderBy; rows equal in it come in the order
\* of their ids or against it, as the store pleases.
Ordered(rows, tiesById) == OrderBy(IF tiesById THEN rows ELSE Reverse(rows))

\* skip and take of findMany on ordered rows: a negative take counts from
\* the end of the list; a negative skip is refused (SkipRefused)
SkipRefused(skip) == skip < 0

SkipTake(rows, skip, take) ==
    IF take >= 0
    THEN SubSeq(rows, skip + 1, Min(skip + take, Len(rows)))
    ELSE SubSeq(rows, IF Len(rows) - skip + take < 0 THEN 1 ELSE Len(rows) - skip + take + 1,
                Len(rows) - skip)

\* ------------------------------------------------------------ read requests
\* list and data requests being served
Reads == {r \in DOMAIN requests : requests[r].op \in {"list", "data"}}

\* x || undefined of the DTOs: null and 0 are left out
OrUndefined(column) == IF column = Some(0) THEN Null ELSE column

\* A DTO that leaves the storage path out.
JobDTOWithoutFileUrl(id, row) ==
    [id |-> id,
     userId |-> row.userId,
     status |-> row.status,
     totalRows |-> OrUndefined(row.totalRows),
     processedRows |-> OrUndefined(row.processedRows),
     errorMessage |-> row.errorMessage,
     completedAt |-> row.completedAt]

\* the FileProcessingJobDTO of a row (getFileStatus lines 96-111, getFileList
\* lines 174-189)
JobDTO(id, row) ==
    [id |-> id,
     userId |-> row.userId,
     fileUrl |-> row.fileUrl,
     status |-> row.status,
     totalRows |-> OrUndefined(row.totalRows),
     processedRows |-> OrUndefined(row.processedRows),
     errorMessage |-> row.errorMessage,
     completedAt |-> row.completedAt]

\* GET /files/:id/status: FileController.getFileStatus and
\* FileProcessingService.getFileStatus
GetFileStatus(id, userId) ==
    LET req == NewRequest("status", id, userId, "findFirst") IN
    /\ IF ~storeUp
       THEN /\ returned' = Throws(req, STORE_ERROR)
            /\ response' = Sent(req, Failure(500, INTERNAL_ERROR))
       ELSE IF FindFirst(id, userId) = Null
       THEN /\ returned' = Returns(req, Null)
            /\ response' = Sent(req, Failure(404, FILE_NOT_FOUND))
       ELSE /\ returned' = Returns(req, JobDTO(id, fileProcessing[id]))
            /\ response' = Sent(req, Success(JobDTO(id, fileProcessing[id]), STATUS_RETRIEVED))
    /\ UNCHANGED <<fileProcessing, processedData, uploads, queue, requests, issued, nextId,
                   storeUp, outages, queueUp, age>>

\* the files of a user, with the status filter of getFileList, newest first
FilesOf(userId, status) ==
    LET ids == {id \in DOMAIN fileProcessing :
                   /\ fileProcessing[id].userId = userId
                   /\ (status # Null => fileProcessing[id].status = status[1])}
        RECURSIVE Desc(_)
        Desc(rest) == IF rest = {} THEN <<>>
                      ELSE LET top == CHOOSE id \in rest : \A other \in rest : other <= id
                           IN <<top>> \o Desc(rest \ {top})
    IN Desc(ids)

\* GET /files: getFileList lines 128-158, up to the count
ListCount(userId, query) ==
    LET page == OrDefault(ParseInt(query.page), 1)
        rows == Min(OrDefault(ParseInt(query.rows), listRows), listMaxRows)
        req == [NewRequest("list", 0, userId, "findMany") EXCEPT
                   !.query = [page |-> page, rows |-> rows, skip |-> (page - 1) * rows,
                              status |-> query.status,
                              shown |-> IF query.rows = Null THEN Some(listRows)
                                        ELSE query.rows],
                   !.total = Len(FilesOf(userId, query.status))]
    IN
    /\ Cardinality(Reads) < MaxReads
    /\ IF storeUp
       THEN /\ requests' = Append(requests, req)
            /\ Silent
       ELSE /\ returned' = Throws(req, STORE_ERROR)
            /\ response' = Sent(req, Failure(500, INTERNAL_ERROR))
            /\ UNCHANGED requests
    /\ UNCHANGED <<fileProcessing, processedData, uploads, queue, issued, nextId, storeUp, outages, queueUp, age>>

\* getFileList lines 161-193: the page of files, and the response
ListFindMany(r) ==
    LET req == requests[r]
        q == req.query
        ids == SkipTake(FilesOf(req.userId, q.status), q.skip, q.rows)
        result == [files |-> [k \in 1..Len(ids) |-> JobDTO(ids[k], fileProcessing[ids[k]])],
                   total |-> req.total,
                   page |-> q.page,
                   totalPages |-> Ceil(req.total, q.rows)]
    IN
    /\ req.op = "list" /\ req.pc = "findMany"
    /\ requests' = Respond(r)
    /\ IF ~storeUp
       THEN /\ returned' = Throws(req, STORE_ERROR)
            /\ response' = Sent(req, Failure(500, INTERNAL_ERROR))
       ELSE IF SkipRefused(q.skip)
       THEN /\ returned' = Throws(req, SKIP_ERROR)
            /\ response' = Sent(req, Failure(500, INTERNAL_ERROR))
       ELSE /\ returned' = Returns(req, result)
            /\ response' = Sent(req, Success(
                   [files |-> result.files,
                    pagination |-> [total |-> result.total, page |-> result.page,
                                    totalPages |-> result.totalPages, rows |-> q.shown]],
                   LIST_RETRIEVED))
    /\ UNCHANGED <<fileProcessing, processedData, uploads, queue, issued, nextId, storeUp, outages, queueUp, age>>

\* GET /files/:id/data: getProcessedData lines 209-223, the ownership check;
\* the controller answers a failure with the error's own message
DataFind(id, userId, query) ==
    LET page == OrDefault(ParseInt(query.page), 1)
        rows == Min(OrDefault(ParseInt(query.rows), dataRows), dataMaxRows)
        req == [NewRequest("data", id, userId, "findMany") EXCEPT
                   !.query = [page |-> page, rows |-> rows, skip |-> (page - 1) * rows,
                              shownPage |-> OrDefault(ParseInt(query.page), 1),
                              shownRows |-> OrDefault(ParseInt(query.rows), dataRows)]]
    IN
    /\ Cardinality(Reads) < MaxReads
    /\ IF storeUp /\ FindFirst(id, userId) # Null
       THEN /\ requests' = Append(requests, req)
            /\ Silent
       ELSE /\ returned' = Throws(req, FindError)
            /\ response' = Sent(req, Failure(500, FindError))
            /\ UNCHANGED requests
    /\ UNCHANGED <<fileProcessing, processedData, uploads, queue, issued, nextId, storeUp, outages, queueUp, age>>

\* lines 226-236: the page of records
DataFindMany(r) ==
    LET req == requests[r]
        q == req.query
        error == IF storeUp THEN SKIP_ERROR ELSE STORE_ERROR
    IN
    /\ req.op = "data" /\ req.pc = "findMany"
    /\ IF storeUp /\ ~SkipRefused(q.skip)
       THEN /\ \E tiesById \in BOOLEAN :
                   requests' = [requests EXCEPT
                       ![r].data = SkipTake(Ordered(DataOf(req.id), tiesById), q.skip, q.rows),
                       ![r].pc = "count"]
            /\ Silent
       ELSE /\ requests' = Respond(r)
            /\ returned' = Throws(req, error)
            /\ response' = Sent(req, Failure(500, error))
    /\ UNCHANGED <<fileProcessing, processedData, uploads, queue, issued, nextId, storeUp, outages, queueUp, age>>

\* lines 238-256: the count, and the response
DataCount(r) ==
    LET req == requests[r]
        q == req.query
        total == Len(DataOf(req.id))
    IN
    /\ req.op = "data" /\ req.pc = "count"
    /\ requests' = Respond(r)
    /\ IF storeUp
       THEN /\ returned' = Returns(req, [data |-> req.data, total |-> total])
            /\ response' = Sent(req, Success(
                   [data |-> req.data,
                    pagination |-> [total |-> total, page |-> q.shownPage, rows |-> q.shownRows]],
                   DATA_RETRIEVED))
       ELSE /\ returned' = Throws(req, STORE_ERROR)
            /\ response' = Sent(req, Failure(500, STORE_ERROR))
    /\ UNCHANGED <<fileProcessing, processedData, uploads, queue, issued, nextId, storeUp, outages, queueUp, age>>

\* POST /files/:id/cancel: FilesRoutes has no such route, and no code
\* writes CANCELLED; express answers 404 after the authentication.
Cancel(id, userId) ==
    /\ returned' = Null
    /\ response' = Sent(NewRequest("cancel", id, userId, "route"), Failure(404, NO_ROUTE))
    /\ UNCHANGED <<fileProcessing, processedData, uploads, queue, requests, issued, nextId,
                   storeUp, outages, queueUp, age>>

\* -------------------------------------------------------------- environment
\* The Job Record Store becomes unreachable, and reachable again.
StoreDown ==
    /\ storeUp /\ outages < MaxOutages
    /\ storeUp' = FALSE
    /\ outages' = outages + 1
    /\ UNCHANGED <<fileProcessing, processedData, uploads, queue, requests, issued, nextId,
                   queueUp, age>>
    /\ Silent

StoreBack ==
    /\ ~storeUp
    /\ storeUp' = TRUE
    /\ UNCHANGED <<fileProcessing, processedData, uploads, queue, requests, issued, nextId, outages, queueUp, age>>
    /\ Silent

\* Redis becomes unreachable, and reachable again.
QueueDown ==
    /\ queueUp
    /\ queueUp' = FALSE
    /\ UNCHANGED <<fileProcessing, processedData, uploads, queue, requests, issued, nextId,
                   storeUp, outages, age>>
    /\ Silent

QueueBack ==
    /\ ~queueUp
    /\ queueUp' = TRUE
    /\ UNCHANGED <<fileProcessing, processedData, uploads, queue, requests, issued, nextId,
                   storeUp, outages, age>>
    /\ Silent

Next ==
    \/ \E src \in Sources, u \in Users :
           issued.upload < MaxUploads /\ UploadFile(Workbook(src), u)
    \/ \E r \in DOMAIN requests : UploadAddJob(r)
    \/ \E e \in DOMAIN queue : Deliver(e)
    \/ \E e \in DOMAIN queue : SetInProgress(e)
    \/ \E e \in DOMAIN queue : SetTotalRows(e)
    \/ \E e \in DOMAIN queue : Checkpoint(e)
    \/ \E e \in DOMAIN queue : InsertBatch(e)
    \/ \E e \in DOMAIN queue : Complete(e)
    \/ \E e \in DOMAIN queue : Catch(e)
    \/ \E id \in JobIds, u \in Users : RetryGetFileStatus(id, u)
    \/ \E r \in DOMAIN requests : ClearFind(r)
    \/ \E r \in DOMAIN requests : ClearDelete(r)
    \/ \E r \in DOMAIN requests : RetryFind(r)
    \/ \E r \in DOMAIN requests : RetryUpdate(r)
    \/ \E r \in DOMAIN requests : RetryAddJob(r)
    \/ \E id \in JobIds, u \in Users : DeleteGetFileStatus(id, u)
    \/ \E r \in DOMAIN requests : DeleteFind(r)
    \/ \E r \in DOMAIN requests : DeleteRow(r)
    \/ StoreDown
    \/ StoreBack

Spec == Init /\ [][Next]_vars

\* Uploads of every kind of workbook and their processing, with the store
\* reachable and no retry or delete request.
NextExtract ==
    \/ \E src \in ExtractSources, name \in OriginalNames, size \in Sizes, u \in Users :
           issued.upload < MaxUploads /\ UploadFile(File(name, size, src), u)
    \/ \E r \in DOMAIN requests : UploadAddJob(r)
    \/ \E e \in DOMAIN queue : Deliver(e)
    \/ \E e \in DOMAIN queue : SetInProgress(e)
    \/ \E e \in DOMAIN queue : SetTotalRows(e)
    \/ \E e \in DOMAIN queue : Checkpoint(e)
    \/ \E e \in DOMAIN queue : InsertBatch(e)
    \/ \E e \in DOMAIN queue : Complete(e)
    \/ \E e \in DOMAIN queue : Catch(e)

SpecExtract == Init /\ [][NextExtract]_vars

\* One or two uploads of a sheet of several checkpoints and their processing,
\* with store outages and the automatic redelivery that follows, and no retry
\* request.
NextRedeliver ==
    \/ \E u \in Users :
           issued.upload < MaxUploads /\ UploadFile(Workbook("tall"), u)
    \/ \E r \in DOMAIN requests : UploadAddJob(r)
    \/ \E e \in DOMAIN queue : Deliver(e)
    \/ \E e \in DOMAIN queue : SetInProgress(e)
    \/ \E e \in DOMAIN queue : SetTotalRows(e)
    \/ \E e \in DOMAIN queue : Checkpoint(e)
    \/ \E e \in DOMAIN queue : InsertBatch(e)
    \/ \E e \in DOMAIN queue : Complete(e)
    \/ \E e \in DOMAIN queue : Catch(e)
    \/ StoreDown
    \/ StoreBack

SpecRedeliver == Init /\ [][NextRedeliver]_vars

\* Uploads, their processing and delete requests at any moment of it.
NextDelete ==
    \/ \E src \in Sources, u \in Users :
           issued.upload < MaxUploads /\ UploadFile(Workbook(src), u)
    \/ \E r \in DOMAIN requests : UploadAddJob(r)
    \/ \E e \in DOMAIN queue : Deliver(e)
    \/ \E e \in DOMAIN queue : SetInProgress(e)
    \/ \E e \in DOMAIN queue : SetTotalRows(e)
    \/ \E e \in DOMAIN queue : Checkpoint(e)
    \/ \E e \in DOMAIN queue : InsertBatch(e)
    \/ \E e \in DOMAIN queue : Complete(e)
    \/ \E e \in DOMAIN queue : Catch(e)
    \/ \E id \in JobIds, u \in Users : DeleteGetFileStatus(id, u)
    \/ \E r \in DOMAIN requests : DeleteFind(r)
    \/ \E r \in DOMAIN requests : DeleteRow(r)

SpecDelete == Init /\ [][NextDelete]_vars

\* ----------------------------------------------------- cleanupTemporaryFiles
\* line 415: const maxAge = 24 * 60 * 60 * 1000; // 24 hours
maxAge == 24 * 60 * 60 * 1000

\* the step of the clock
HalfDay == maxAge \div 2

\* Half a day passes: every file of the uploads directory is that much older.
Tick ==
    /\ DOMAIN age # {}
    /\ \A f \in DOMAIN age : age[f] < MaxTicks * HalfDay
    /\ age' = [f \in DOMAIN age |-> age[f] + HalfDay]
    /\ UNCHANGED <<fileProcessing, processedData, uploads, queue, requests, issued, nextId,
                   storeUp, outages, queueUp>>
    /\ Silent

\* lines 419-421: now.getTime() - stats.mtime.getTime() > maxAge
Expired(file) == age[file] > maxAge

\* FileProcessingService.cleanupTemporaryFiles, lines 408-430: every file of
\* the uploads directory older than maxAge is unlinked, in the order of
\* readdirSync; an error of statSync or unlinkSync (at file failAt, 0 for no
\* error) ends the loop in the catch, which logs it.
CleanupTemporaryFiles ==
    /\ \E failAt \in DOMAIN uploads \cup {0} :
           LET kept == {f \in DOMAIN uploads :
                           ~Expired(f) \/ (failAt # 0 /\ f >= failAt)}
           IN  /\ uploads' = [f \in kept |-> uploads[f]]
               /\ age' = [f \in kept |-> age[f]]
    /\ UNCHANGED <<fileProcessing, processedData, queue, requests, issued, nextId,
                   storeUp, outages, queueUp>>
    /\ Silent

\* Uploads and their processing while time passes and the uploads directory
\* is cleaned up.
NextCleanup ==
    \/ \E src \in Sources, u \in Users :
           issued.upload < MaxUploads /\ UploadFile(Workbook(src), u)
    \/ \E r \in DOMAIN requests : UploadAddJob(r)
    \/ \E e \in DOMAIN queue : Deliver(e)
    \/ \E e \in DOMAIN queue : SetInProgress(e)
    \/ \E e \in DOMAIN queue : SetTotalRows(e)
    \/ \E e \in DOMAIN queue : Checkpoint(e)
    \/ \E e \in DOMAIN queue : InsertBatch(e)
    \/ \E e \in DOMAIN queue : Complete(e)
    \/ \E e \in DOMAIN queue : Catch(e)
    \/ Tick
    \/ CleanupTemporaryFiles

SpecCleanup == Init /\ [][NextCleanup]_vars

\* the query strings the read requests are tried with
PageParams == {Null, Some(<<"0">>), Some(<<"-", "1">>), Some(<<"x">>), Some(<<"2">>)}

RowsParams ==
    {Null, Some(<<"0">>), Some(<<"-", "2">>), Some(<<"x">>), Some(<<"2">>),
     Some(<<"2", "0", "0", "0">>)}

StatusParams == {Null, Some(COMPLETED)}

\* the uploads of the read runs
ApiSources == {"empty", "aliceBob", "wide"}

\* Uploads, their processing and the read requests on them, with the store
\* reachable.
NextApi ==
    \/ \E src \in ApiSources, u \in Users :
           issued.upload < MaxUploads /\ UploadFile(Workbook(src), u)
    \/ \E r \in DOMAIN requests : UploadAddJob(r)
    \/ \E e \in DOMAIN queue : Deliver(e)
    \/ \E e \in DOMAIN queue : SetInProgress(e)
    \/ \E e \in DOMAIN queue : SetTotalRows(e)
    \/ \E e \in DOMAIN queue : Checkpoint(e)
    \/ \E e \in DOMAIN queue : InsertBatch(e)
    \/ \E e \in DOMAIN queue : Complete(e)
    \/ \E e \in DOMAIN queue : Catch(e)
    \/ \E id \in JobIds, u \in Users : GetFileStatus(id, u)
    \/ \E u \in Users, page \in PageParams, rows \in RowsParams, status \in StatusParams :
           ListCount(u, [page |-> page, rows |-> rows, status |-> status])
    \/ \E r \in DOMAIN requests : ListFindMany(r)
    \/ \E id \in JobIds, u \in Users, page \in PageParams, rows \in RowsParams :
           DataFind(id, u, [page |-> page, rows |-> rows])
    \/ \E r \in DOMAIN requests : DataFindMany(r)
    \/ \E r \in DOMAIN requests : DataCount(r)
    \/ \E id \in JobIds, u \in Users : Cancel(id, u)

SpecApi == Init /\ [][NextApi]_vars

\* Two uploads and their processing, side by side in the two processing
\* slots, with the store reachable and no other request.
NextPair ==
    \/ \E src \in ApiSources, u \in Users :
           issued.upload < MaxPairUploads /\ UploadFile(Workbook(src), u)
    \/ \E r \in DOMAIN requests : UploadAddJob(r)
    \/ \E e \in DOMAIN queue : Deliver(e)
    \/ \E e \in DOMAIN queue : SetInProgress(e)
    \/ \E e \in DOMAIN queue : SetTotalRows(e)
    \/ \E e \in DOMAIN queue : Checkpoint(e)
    \/ \E e \in DOMAIN queue : InsertBatch(e)
    \/ \E e \in DOMAIN queue : Complete(e)
    \/ \E e \in DOMAIN queue : Catch(e)

SpecPair == Init /\ [][NextPair]_vars

\* a step of a handler
WorkerStep ==
    \E e \in DOMAIN queue :
        \/ SetInProgress(e)
        \/ SetTotalRows(e)
        \/ Checkpoint(e)
        \/ InsertBatch(e)
        \/ Complete(e)
        \/ Catch(e)

\* a step of a request that is being served
RequestStep ==
    \E r \in DOMAIN requests :
        \/ UploadAddJob(r)
        \/ ClearFind(r)
        \/ ClearDelete(r)
        \/ RetryFind(r)
        \/ RetryUpdate(r)
        \/ RetryAddJob(r)

\* Uploads, retries and the processing, with the store reachable, while
\* Redis comes and goes.
NextLive ==
    \/ \E src \in ApiSources, u \in Users :
           issued.upload < MaxUploads /\ UploadFile(Workbook(src), u)
    \/ \E id \in JobIds, u \in Users : RetryGetFileStatus(id, u)
    \/ RequestStep
    \/ \E e \in DOMAIN queue : Deliver(e)
    \/ WorkerStep
    \/ QueueDown
    \/ QueueBack

\* Fair scheduling: a handler that can take a step takes one, a request
\* being served goes on, Redis comes back, and a job that can be delivered
\* again and again is delivered.
SpecLive ==
    /\ Init /\ [][NextLive]_vars
    /\ WF_vars(WorkerStep)
    /\ WF_vars(RequestStep)
    /\ WF_vars(QueueBack)
    /\ SF_vars(\E e \in DOMAIN queue : Deliver(e))

\* Every request that names a file, by its owner and by the other user, next
\* to the processing, with the store reachable: status, data (first page),
\* retry and delete.
NextOwner ==
    \/ \E src \in ApiSources, u \in Users :
           issued.upload < MaxUploads /\ UploadFile(Workbook(src), u)
    \/ \E r \in DOMAIN requests : UploadAddJob(r)
    \/ \E e \in DOMAIN queue : Deliver(e)
    \/ \E e \in DOMAIN queue : SetInProgress(e)
    \/ \E e \in DOMAIN queue : SetTotalRows(e)
    \/ \E e \in DOMAIN queue : Checkpoint(e)
    \/ \E e \in DOMAIN queue : InsertBatch(e)
    \/ \E e \in DOMAIN queue : Complete(e)
    \/ \E e \in DOMAIN queue : Catch(e)
    \/ \E id \in JobIds, u \in Users : GetFileStatus(id, u)
    \/ \E id \in JobIds, u \in Users : DataFind(id, u, [page |-> Null, rows |-> Null])
    \/ \E r \in DOMAIN requests : DataFindMany(r)
    \/ \E r \in DOMAIN requests : DataCount(r)
    \/ \E id \in JobIds, u \in Users : RetryGetFileStatus(id, u)
    \/ \E r \in DOMAIN requests : ClearFind(r)
    \/ \E r \in DOMAIN requests : ClearDelete(r)
    \/ \E r \in DOMAIN requests : RetryFind(r)
    \/ \E r \in DOMAIN requests : RetryUpdate(r)
    \/ \E r \in DOMAIN requests : RetryAddJob(r)
    \/ \E id \in JobIds, u \in Users : DeleteGetFileStatus(id, u)
    \/ \E r \in DOMAIN requests : DeleteFind(r)
    \/ \E r \in DOMAIN requests : DeleteRow(r)

SpecOwner == Init /\ [][NextOwner]_vars

\* ================================================================== claims
StatusOf(id) == fileProcessing[id].status

\* the (rowNumber, columnName) pairs of a file's stored records are distinct
NoDuplicatePairs(data) ==
    \A a, b \in 1..Len(data) :
        a # b => <<data[a].rowNumber, data[a].columnName>>
                 # <<data[b].rowNumber, data[b].columnName>>

\* The status changes of the state machine of spec section 4.2.
AllowedTransitions ==
    {<<PENDING, IN_PROGRESS>>, <<IN_PROGRESS, COMPLETED>>, <<IN_PROGRESS, FAILED>>,
     <<FAILED, PENDING>>, <<PENDING, CANCELLED>>, <<IN_PROGRESS, CANCELLED>>}

\* C1: every change of a job's stored status is one of PENDING->IN_PROGRESS,
\* IN_PROGRESS->COMPLETED, IN_PROGRESS->FAILED, FAILED->PENDING (made by a
\* retry request) or PENDING/IN_PROGRESS->CANCELLED.
C1_StatusTransitions ==
    [][\A id \in DOMAIN fileProcessing \cap DOMAIN fileProcessing' :
          StatusOf(id)' # StatusOf(id) =>
              /\ <<StatusOf(id), StatusOf(id)'>> \in AllowedTransitions
              /\ (StatusOf(id)' = PENDING =>
                     \E r \in DOMAIN requests :
                         /\ requests[r].op = "retry"
                         /\ requests[r].id = id
                         /\ requests[r].pc = "retryUpdate")]_vars

\* C2: no two executions of handleExcelJob are active for the same
\* fileProcessingId at the same time.
C2_SingleActiveConsumer ==
    \A e1, e2 \in Active :
        e1 # e2 => queue[e1].data.fileProcessingId # queue[e2].data.fileProcessingId

\* the records one complete pass over the workbook produces
Produced(id, src) == RunRows(id, Sheet(src), 1, <<>>, 0).processedData

HeadersDistinct(src) ==
    \A a, b \in 1..Len(Sheet(src)[1]) :
        a # b => Sheet(src)[1][a].text # Sheet(src)[1][b].text

\* C3: a job with a single queue entry and no retry request, of which an
\* earlier delivery attempt failed after some but not all batches were
\* inserted (the stored records are not whole passes only), and whose
\* redelivered attempt completed, has no duplicate (rowNumber, columnName)
\* and processedRows not above the number of data rows of the source.
C3_RedeliveryIdempotent ==
    \A id \in DOMAIN fileProcessing :
        LET row == fileProcessing[id]
            src == uploads[row.fileUrl]
            perPass == Len(Produced(id, src))
        IN
        (/\ row.status = COMPLETED
         /\ row.fileUrl \in DOMAIN uploads
         /\ issued.retry = 0
         /\ Len(queue) = 1
         /\ queue[1].state = "completed"
         /\ queue[1].attemptsMade > 0
         /\ HeadersDistinct(src)
         /\ perPass > 0
         /\ Len(DataOf(id)) % perPass # 0)
        => /\ NoDuplicatePairs(DataOf(id))
           /\ row.processedRows # Null
           /\ row.processedRows[1] <= Len(Sheet(src)) - 1

\* C4: no two stored records of a job have the same (rowNumber, columnName).
C4_UniquePairs ==
    \A id \in DOMAIN fileProcessing : NoDuplicatePairs(DataOf(id))

\* a 'process-excel-retry' job for file id is added in this step
RetryEnqueued(id) ==
    /\ Len(queue') = Len(queue) + 1
    /\ queue'[Len(queue')].name = "process-excel-retry"
    /\ queue'[Len(queue')].data.fileProcessingId = id

\* C5: the writes of a retry request (the deleteMany of the job's records
\* and the reset of its row to PENDING, after which the retry job is
\* enqueued) take effect only on a job whose stored status is FAILED at
\* that moment.
C5_RetryOnlyFromFailed ==
    [][\A r \in DOMAIN requests :
          ((ClearDelete(r) \/ RetryUpdate(r)) /\ CanUpdate(requests[r].id))
              => StatusOf(requests[r].id) = FAILED]_vars

\* C6: when a retry has enqueued its job (it returns successfully) the file
\* has no records, status PENDING, null totalRows, processedRows,
\* errorMessage and completedAt, and the new job has all 3 attempts left;
\* and a file COMPLETED after a retry has no duplicate (rowNumber,
\* columnName).
C6_RetryClearsAndRequeues ==
    /\ [][\A id \in JobIds :
             RetryEnqueued(id) =>
                 /\ id \in DOMAIN fileProcessing'
                 /\ DataOf(id)' = <<>>
                 /\ fileProcessing'[id] = ResetRow(fileProcessing'[id])
                 /\ queue'[Len(queue')].state = "waiting"
                 /\ queue'[Len(queue')].attemptsMade = 0]_vars
    /\ [](\A id \in DOMAIN fileProcessing :
             (/\ StatusOf(id) = COMPLETED
              /\ \E e \in DOMAIN queue :
                     /\ queue[e].name = "process-excel-retry"
                     /\ queue[e].data.fileProcessingId = id
                     /\ queue[e].state = "completed")
             => NoDuplicatePairs(DataOf(id)))

\* C7: once a job is COMPLETED (or CANCELLED) no step changes its status or
\* removes records of it, unless the step deletes the job.
C7_TerminalStatus ==
    [][\A id \in DOMAIN fileProcessing :
          StatusOf(id) \in {COMPLETED, CANCELLED} =>
              \/ id \notin DOMAIN fileProcessing'
              \/ /\ StatusOf(id)' = StatusOf(id)
                 /\ Len(DataOf(id)') >= Len(DataOf(id))]_vars

\* handler invocations a queue job has had
Deliveries(job) ==
    job.attemptsMade + (IF job.state \in {"active", "completed"} THEN 1 ELSE 0)

C9_FailedAttemptMarksFailed ==
    [][\A e \in DOMAIN queue :
          (queue[e].pc = "catch" /\ queue'[e].state # "active") =>
              LET id == queue[e].data.fileProcessingId IN
              /\ queue'[e].attemptsMade = queue[e].attemptsMade + 1
              /\ id \in DOMAIN fileProcessing'
              /\ StatusOf(id)' = FAILED
              /\ fileProcessing'[id].errorMessage = Some(queue[e].error)]_vars

\* the messages of the extraction-time failures
ParseErrors == {NO_DATA_FOUND, READ_ERROR}

\* the stored row shows a failed attempt whose cause was an extraction failure
ParseFailed(id) ==
    /\ id \in DOMAIN fileProcessing
    /\ StatusOf(id) = FAILED
    /\ fileProcessing[id].errorMessage \in {Some(m) : m \in ParseErrors}

\* C10 as stated: a job that is FAILED by an extraction-time failure is not
\* redelivered automatically.
C10_NoRedeliveryAfterParseError ==
    [][\A e \in DOMAIN queue :
          (queue[e].state = "delayed" /\ queue'[e].state = "active")
              => ~ParseFailed(queue[e].data.fileProcessingId)]_vars

\* C10 amended: an attempt that fails with an extraction-time failure is
\* rescheduled like any other failed attempt: its queue job is delayed for
\* redelivery while fewer than 3 attempts were made, and failed after the
\* third.
C10_ParseErrorRetriedLikeAny ==
    [][\A e \in DOMAIN queue :
          (queue[e].pc = "catch" /\ queue[e].error \in ParseErrors
           /\ queue'[e].state # "active") =>
              /\ queue'[e].attemptsMade = queue[e].attemptsMade + 1
              /\ queue'[e].state =
                     IF queue[e].attemptsMade + 1 < 3 THEN "delayed" ELSE "failed"]_vars

\* a job FAILED with the no-data message whose queue job awaits redelivery
C10_Witness ==
    \E e \in DOMAIN queue :
        /\ queue[e].state = "delayed"
        /\ queue[e].attemptsMade = 1
        /\ ParseFailed(queue[e].data.fileProcessingId)
        /\ fileProcessing[queue[e].data.fileProcessingId].errorMessage = Some(NO_DATA_FOUND)

\* C11: the k-th delivery attempt of a queue job (k = 1, 2, 3) stores
\* retryCount = k - 1, the number of attempts the queue has counted so far,
\* when it marks the file IN_PROGRESS.
C11_RetryCountIsAttemptsMade ==
    [][\A e \in DOMAIN queue :
          (SetInProgress(e) /\ CanUpdate(queue[e].data.fileProcessingId)) =>
              fileProcessing'[queue[e].data.fileProcessingId].retryCount
                  = queue[e].attemptsMade]_vars

\* C12: completedAt is non-null exactly when the status is COMPLETED.
C12_CompletedAtIffCompleted ==
    \A id \in DOMAIN fileProcessing :
        fileProcessing[id].completedAt # Null <=> StatusOf(id) = COMPLETED

\* C13: errorMessage is non-null exactly when the status is FAILED.
C13_ErrorMessageIffFailed ==
    \A id \in DOMAIN fileProcessing :
        fileProcessing[id].errorMessage # Null <=> StatusOf(id) = FAILED

\* C14: whenever processedRows and totalRows are both non-null,
\* processedRows <= totalRows.
C14_ProcessedWithinTotal ==
    \A id \in DOMAIN fileProcessing :
        (fileProcessing[id].processedRows # Null /\ fileProcessing[id].totalRows # Null)
            => fileProcessing[id].processedRows[1] <= fileProcessing[id].totalRows[1]

\* a checkpoint wrote processedRows while the attempt goes on, after an
\* earlier attempt of the file had failed
C14_Witness ==
    \E e \in DOMAIN queue :
        /\ queue[e].state = "active"
        /\ queue[e].attemptsMade > 0
        /\ queue[e].pc = "insert"
        /\ queue[e].data.fileProcessingId \in DOMAIN fileProcessing
        /\ fileProcessing[queue[e].data.fileProcessingId].processedRows = Some(progressEvery)
        /\ fileProcessing[queue[e].data.fileProcessingId].totalRows # Null
        /\ issued.retry > 0

\* C15: a COMPLETED file has processedRows = totalRows = the number of data
\* rows of its source, and a FAILED file has a null completedAt.
C15_CompletedCountsFailedNoCompletedAt ==
    \A id \in DOMAIN fileProcessing :
        LET row == fileProcessing[id] IN
        /\ (row.status = COMPLETED /\ row.fileUrl \in DOMAIN uploads) =>
               /\ row.totalRows = Some(Len(Sheet(uploads[row.fileUrl])) - 1)
               /\ row.processedRows = row.totalRows
        /\ row.status = FAILED => row.completedAt = Null

\* ---- extraction claims, over SpecExtract
\* the data rows and the header of a workbook
DataRows(src) == Len(Sheet(src)) - 1

Header(src) == IF Len(Sheet(src)) = 0 THEN <<>> ELSE Sheet(src)[1]

\* a cell that is empty, null or blank
IsBlankCell(cell) == cell.type \in {"undefined", "null"} \/ cell.text = ""

\* the cells <<r, c>> of the DataRows x |Header| grid, row by row
GridCells(src) ==
    [n \in 1..(DataRows(src) * Len(Header(src))) |->
        <<((n - 1) \div Len(Header(src))) + 1, ((n - 1) % Len(Header(src))) + 1>>]

\* those of them that are not blank
NonBlankCells(src) ==
    SelectSeq(GridCells(src),
              LAMBDA x : ~IsBlankCell(CellAt(Sheet(src)[x[1] + 1], x[2])))

\* the workbook a file was uploaded with
SourceOf(id) == uploads[fileProcessing[id].fileUrl]

\* C16: one successful processing of a source with header H and N data rows
\* stores totalRows = N and exactly one record for each non-blank cell of
\* the N x |H| grid, with the cell's column name, value and type, and no
\* other record; the header [ID, Name] with rows [1, "Alice"], ["", "Bob"]
\* gives totalRows = 2 and 3 records.
C16_OneRecordPerNonBlankCell ==
    \A id \in DOMAIN fileProcessing :
        StatusOf(id) = COMPLETED =>
            LET src == SourceOf(id)
                data == DataOf(id)
                cells == NonBlankCells(src)
            IN
            /\ fileProcessing[id].totalRows = Some(DataRows(src))
            /\ Len(data) = Len(cells)
            /\ \E k \in 0..1 : \A a \in 1..Len(cells) :
                   LET d == data[a]
                       x == cells[a]
                       cell == CellAt(Sheet(src)[x[1] + 1], x[2])
                   IN
                   /\ d.rowNumber = x[1] + k
                   /\ d.columnName = Header(src)[x[2]].text
                   /\ d.value = cell.text
                   /\ d.dataType = cell.type
            /\ src = "aliceBob" =>
                   (fileProcessing[id].totalRows = Some(2) /\ Len(data) = 3)

\* the Alice / Bob workbook was processed: 3 records, none for the blank ID
C16_Witness ==
    \E id \in DOMAIN fileProcessing :
        /\ StatusOf(id) = COMPLETED
        /\ SourceOf(id) = "aliceBob"
        /\ Len(DataOf(id)) = 3
        /\ \A a \in 1..3 : DataOf(id)[a].value # ""

\* C17 as stated: the records of the N-th data row have rowNumber N, and
\* every rowNumber lies in 1..totalRows.
C17_RowNumberCountsDataRows ==
    \A id \in DOMAIN fileProcessing :
        LET data == DataOf(id)
            cells == NonBlankCells(SourceOf(id))
        IN
        /\ \A a \in 1..Len(data) :
               /\ fileProcessing[id].totalRows # Null
               /\ data[a].rowNumber \in 1..fileProcessing[id].totalRows[1]
        /\ StatusOf(id) = COMPLETED =>
               \A a \in 1..Len(cells) : data[a].rowNumber = cells[a][1]

\* C17 amended: rowNumber is the 1-based row of the sheet, the header row
\* being row 1: the records of the N-th data row have rowNumber N + 1, and
\* every rowNumber lies in 2..totalRows + 1.
C17_RowNumberCountsHeader ==
    \A id \in DOMAIN fileProcessing :
        LET data == DataOf(id)
            cells == NonBlankCells(SourceOf(id))
        IN
        /\ \A a \in 1..Len(data) :
               /\ fileProcessing[id].totalRows # Null
               /\ data[a].rowNumber \in 2..(fileProcessing[id].totalRows[1] + 1)
        /\ StatusOf(id) = COMPLETED =>
               \A a \in 1..Len(cells) : data[a].rowNumber = cells[a][1] + 1

\* a processed workbook of two data rows: its last record has rowNumber 3
C17_Witness ==
    \E id \in DOMAIN fileProcessing :
        /\ StatusOf(id) = COMPLETED
        /\ fileProcessing[id].totalRows = Some(2)
        /\ Len(DataOf(id)) > 0
        /\ DataOf(id)[1].rowNumber = 2
        /\ DataOf(id)[Len(DataOf(id))].rowNumber = 3

\* C18: a source with a header row and no data row fails: its file never
\* becomes COMPLETED, totalRows stays null, and once an attempt on it has
\* ended the file is FAILED with an errorMessage.
C18_HeaderOnlyFails ==
    \A e \in DOMAIN queue :
        LET id == queue[e].data.fileProcessingId IN
        (Readable(SourceOf(id)) /\ Len(Sheet(SourceOf(id))) = 1) =>
            /\ StatusOf(id) # COMPLETED
            /\ fileProcessing[id].totalRows = Null
            /\ (queue[e].state # "active" /\ Deliveries(queue[e]) > 0) =>
                   (StatusOf(id) = FAILED /\ fileProcessing[id].errorMessage # Null)

\* C19: an attempt on a source that parses to zero rows throws
\* NO_DATA_FOUND right after the file was read; once it has ended the file
\* is FAILED with that message as errorMessage; totalRows stays null and no
\* record is stored.
C19_ZeroRowsNoDataFound ==
    \A e \in DOMAIN queue :
        LET id == queue[e].data.fileProcessingId
            job == queue[e]
        IN
        (Readable(SourceOf(id)) /\ Len(Sheet(SourceOf(id))) = 0) =>
            /\ job.state = "active" => job.pc \in {"setInProgress", "catch"}
            /\ job.pc = "catch" => job.error = NO_DATA_FOUND
            /\ (job.state # "active" /\ job.attemptsMade > 0) =>
                   /\ StatusOf(id) = FAILED
                   /\ fileProcessing[id].errorMessage = Some(NO_DATA_FOUND)
            /\ job.state # "completed"
            /\ fileProcessing[id].totalRows = Null
            /\ DataOf(id) = <<>>

\* an attempt on the empty workbook has ended
C19_Witness ==
    \E e \in DOMAIN queue :
        /\ Readable(SourceOf(queue[e].data.fileProcessingId))
        /\ Len(Sheet(SourceOf(queue[e].data.fileProcessingId))) = 0
        /\ queue[e].state = "delayed"
        /\ queue[e].attemptsMade = 1
        /\ fileProcessing[queue[e].data.fileProcessingId].errorMessage = Some(NO_DATA_FOUND)

\* C20: a progress checkpoint write that fails does not abort the attempt:
\* no checkpoint step passes control to the catch block.
C20_CheckpointFailureTolerated ==
    [][\A e \in DOMAIN queue :
          (queue[e].state = "active" /\ queue[e].pc = "checkpoint" /\ Checkpoint(e))
              => queue'[e].pc # "catch"]_vars

\* ------------------------------------------------------------------ submit
\* the names of OriginalNames that end in .xlsx or .xls, in any case
AcceptedNames ==
    {<<"a", ".", "x", "l", "s", "x">>, <<"a", ".", "X", "L", "S", "X">>,
     <<"a", ".", "x", "l", "s">>, <<"a", ".", "X", "l", "s">>}

\* C21: an upload of more than 10 MiB, or whose name does not end in .xlsx or
\* .xls (in any case), saves no source file, creates no job row and enqueues
\* nothing; an upload of at most 10 MiB (exactly 10 MiB too) with such a name
\* is saved and gets its job row.
C21_RejectedUploadLeavesNothing ==
    [][\A name \in OriginalNames, size \in Sizes, src \in ExtractSources, u \in Users :
          UploadFile(File(name, size, src), u) =>
              IF size > 10 * 1024 * 1024 \/ name \notin AcceptedNames
              THEN UNCHANGED <<uploads, fileProcessing, queue, requests>>
              ELSE /\ DOMAIN uploads' # DOMAIN uploads
                   /\ DOMAIN fileProcessing' = DOMAIN fileProcessing \cup {nextId}]_vars

\* an upload was answered and left nothing behind
C21_Witness ==
    /\ issued.upload = 1
    /\ response # Null /\ response[1].op = "upload"
    /\ DOMAIN uploads = {} /\ DOMAIN fileProcessing = {} /\ queue = <<>> /\ requests = <<>>

\* C22: an accepted submit saves the source and creates exactly one job row,
\* PENDING, with totalRows, processedRows, the error detail and completedAt
\* null and the caller as owner; its next step adds exactly one queue entry,
\* waiting, that names that row and its source location, where no entry named
\* the row before, and returns the two identifiers; the row was created (its
\* id is below nextId) and the source saved before the entry exists.
C22_SubmitCreatesJobThenEntry ==
    [][/\ \A src \in Sources, u \in Users :
           UploadFile(Workbook(src), u) /\ storeUp =>
               /\ uploads' = uploads @@ (issued.upload + 1 :> src)
               /\ issued.upload + 1 \notin DOMAIN uploads
               /\ DOMAIN fileProcessing' = DOMAIN fileProcessing \cup {nextId}
               /\ nextId \notin DOMAIN fileProcessing
               /\ \A id \in DOMAIN fileProcessing : fileProcessing'[id] = fileProcessing[id]
               /\ fileProcessing'[nextId].status = PENDING
               /\ fileProcessing'[nextId].userId = u
               /\ fileProcessing'[nextId].fileUrl = issued.upload + 1
               /\ fileProcessing'[nextId].totalRows = Null
               /\ fileProcessing'[nextId].processedRows = Null
               /\ fileProcessing'[nextId].errorMessage = Null
               /\ fileProcessing'[nextId].completedAt = Null
               /\ queue' = queue
       /\ \A r \in DOMAIN requests :
           UploadAddJob(r) =>
               /\ Len(queue') = Len(queue) + 1
               /\ SubSeq(queue', 1, Len(queue)) = queue
               /\ queue'[Len(queue')].state = "waiting"
               /\ queue'[Len(queue')].data.fileProcessingId = requests[r].id
               /\ queue'[Len(queue')].data.fileUrl = requests[r].fileUrl
               /\ requests[r].id < nextId /\ requests[r].fileUrl <= issued.upload
               /\ requests[r].id \in DOMAIN fileProcessing =>
                      fileProcessing[requests[r].id].fileUrl = requests[r].fileUrl
               /\ \A e \in DOMAIN queue : queue[e].data.fileProcessingId # requests[r].id
               /\ returned' # Null /\ returned'[1].ok
               /\ returned'[1].value = [jobId |-> Len(queue'),
                                        fileProcessingId |-> requests[r].id]
               /\ fileProcessing' = fileProcessing]_vars

\* a submitted file has its queue entry, not yet delivered
C22_Witness ==
    \E e \in DOMAIN queue :
        /\ queue[e].state = "waiting" /\ queue[e].attemptsMade = 0
        /\ queue[e].data.fileProcessingId \in DOMAIN fileProcessing
        /\ returned # Null /\ returned[1].op = "upload" /\ returned[1].ok

\* ---------------------------------------------------------------- ownership
\* the user does not own a file with this id: there is none, or it is
\* another user's
NotOwned(id, userId) ==
    id \notin DOMAIN fileProcessing \/ fileProcessing[id].userId # userId

\* the answer of the request (op, id, userId) to a file that was not found
NotFoundOf(op, id, userId) ==
    Some([op |-> op, id |-> id, userId |-> userId,
          status |-> IF op = "data" THEN 500 ELSE 404,
          body |-> [success |-> FALSE, message |-> FILE_NOT_FOUND]])

\* C23: a status, data, retry or delete request for an id the caller does not
\* own gets the not-found answer of its route at its first step, the same
\* whether the id is another user's file or no file at all, and leaves the
\* rows, the records, the stored files, the queue and the requests in flight
\* as they were: getFileStatus returns null, getProcessedData throws "File
\* not found", and the retry and delete services are not called.  (A step
\* that answers and leaves the requests alone is the first step of its
\* request; a request that goes on is appended.)
C23_NotOwnedIsNotFound ==
    [][/\ (/\ response' # Null
           /\ requests' = requests
           /\ response'[1].op \in {"status", "data", "retry", "delete"}
           /\ NotOwned(response'[1].id, response'[1].userId))
          => (/\ response' = NotFoundOf(response'[1].op, response'[1].id, response'[1].userId)
              /\ IF response'[1].op \in {"retry", "delete"}
                 THEN returned' = Null
                 ELSE /\ returned' # Null
                      /\ returned'[1].ok = (response'[1].op = "status")
                      /\ returned'[1].value =
                             IF response'[1].op = "data" THEN FILE_NOT_FOUND ELSE Null
              /\ UNCHANGED <<fileProcessing, processedData, uploads, queue>>)
       /\ (/\ Len(requests') > Len(requests)
           /\ requests'[Len(requests')].op \in {"data", "retry", "delete"})
          => ~NotOwned(requests'[Len(requests')].id, requests'[Len(requests')].userId)]_vars

\* another user's delete request was answered while the file has records
C23_Witness ==
    /\ response # Null /\ response[1].op = "delete" /\ response[1].status = 404
    /\ response[1].id \in DOMAIN fileProcessing
    /\ fileProcessing[response[1].id].userId # response[1].userId
    /\ DataOf(response[1].id) # <<>>

\* ------------------------------------------------------------------- pages
\* the rows are in the order of (rowNumber, columnName)
IsSorted(rows) == \A i, j \in 1..Len(rows) : i < j => ~Before(rows[j], rows[i])

\* positions (p - 1) * r .. p * r - 1, counted from 0, of the rows
Positions(rows, p, r) ==
    SubSeq(rows, (p - 1) * r + 1, IF p * r < Len(rows) THEN p * r ELSE Len(rows))

\* C24: whatever the page and rows parameters, the findMany of getProcessedData
\* on an owned file yields at most 1000 records, sorted ascending by
\* (rowNumber, columnName), and for a page p >= 1 and the page size r they are
\* exactly the records at positions (p - 1) * r .. p * r - 1 of the file's
\* sorted records.
C24_PageOfSortedRecords ==
    [][\A r \in DOMAIN requests :
          /\ requests[r].op = "data" /\ requests[r].pc = "findMany"
          /\ Len(requests') = Len(requests) /\ requests'[r].pc = "count"
          => /\ Len(requests'[r].data) <= 1000
             /\ IsSorted(requests'[r].data)
             /\ requests[r].query.page >= 1 =>
                    requests'[r].data =
                        Positions(OrderBy(DataOf(requests[r].id)),
                                  requests[r].query.page, requests[r].query.rows)]_vars

\* ------------------------------------------------------------------ delete
\* C25: a delete request answered with success has removed the owner's row
\* and every record of the file, and nothing of other files, whether or not
\* the physical file could be removed; once the ownership check has passed, a
\* delete request fails only with the store or for a row that is gone.
C25_DeleteRemovesRowAndRecords ==
    [][/\ (response' # Null /\ response'[1].op = "delete" /\ response'[1].status = 200)
          => (/\ response'[1].id \in DOMAIN fileProcessing
              /\ fileProcessing[response'[1].id].userId = response'[1].userId
              /\ DOMAIN fileProcessing' = DOMAIN fileProcessing \ {response'[1].id}
              /\ \A k \in DOMAIN processedData' :
                     processedData'[k].fileProcessingId # response'[1].id
              /\ processedData' =
                     SelectSeq(processedData,
                               LAMBDA d : d.fileProcessingId # response'[1].id))
       /\ \A r \in DOMAIN requests :
              (/\ requests[r].op = "delete"
               /\ response' # Null /\ response'[1].op = "delete" /\ response'[1].status = 500
               /\ requests' = Respond(r))
              => ~storeUp \/ requests[r].id \notin DOMAIN fileProcessing]_vars

\* a delete was answered with success for a processed wide workbook,
\* whose physical file is still there
C25_Witness ==
    /\ response # Null /\ response[1].op = "delete" /\ response[1].status = 200
    /\ DOMAIN uploads # {}
    /\ \E e \in DOMAIN queue :
           /\ queue[e].data.fileProcessingId = response[1].id
           /\ queue[e].state = "completed"
           /\ queue[e].data.fileUrl \in DOMAIN uploads
           /\ uploads[queue[e].data.fileUrl] = "wide"

\* ------------------------------------------------------------------ cancel
\* C26: a cancel request on a PENDING file moves it to CANCELLED.
C26_CancelMovesPendingToCancelled ==
    [][\A id \in DOMAIN fileProcessing :
          (/\ response' # Null /\ response'[1].op = "cancel" /\ response'[1].id = id
           /\ fileProcessing[id].status = PENDING)
          => (id \in DOMAIN fileProcessing' /\ fileProcessing'[id].status = CANCELLED)]_vars

FailureMessages ==
    {FILE_NOT_FOUND, INTERNAL_ERROR, ONLY_FAILED, SKIP_ERROR, STORE_ERROR, NO_ROUTE}

C28_AcceptedUploadAnsweredWithIds ==
    [][(returned' # Null /\ returned'[1].op = "upload" /\ returned'[1].ok)
          => (/\ response' # Null
              /\ response'[1].op = "upload"
              /\ response'[1].status = 200
              /\ response'[1].body.content.jobId = returned'[1].value.jobId
              /\ response'[1].body.content.fileProcessingId =
                     returned'[1].value.fileProcessingId)]_vars

\* ----------------------------------------------------------------- batches
\* C29: at every moment of a file's processing the stored records are, in the
\* order they were inserted, the first records of the source in source order
\* (row by row, column by column): the batches go in in emission order.
C29_StoredInSourceOrder ==
    \A id \in DOMAIN fileProcessing :
        LET data == DataOf(id)
            src == SourceOf(id)
            cells == NonBlankCells(src)
        IN
        /\ Len(data) <= Len(cells)
        /\ \A a \in 1..Len(data) :
               /\ data[a].rowNumber = cells[a][1] + 1
               /\ data[a].columnName = Header(src)[cells[a][2]].text

\* the first batch of the wide workbook is stored and the second is not
C29_Witness ==
    \E id \in DOMAIN fileProcessing :
        /\ SourceOf(id) = "wide"
        /\ Len(DataOf(id)) = batchSize
        /\ Len(NonBlankCells("wide")) > batchSize

\* C30: of the R records a processing produces, every persistence call stores
\* the next 100, or all that are left when fewer are: it starts at a multiple
\* of 100, adds min(100, R - stored) records behind the stored ones and none
\* elsewhere, and the file COMPLETED has all R, so the calls are ceil(R / 100)
\* consecutive batches whose concatenation is the produced sequence.
C30_BatchesPartitionTheRecords ==
    [][\A id \in DOMAIN fileProcessing :
          LET before == DataOf(id)
              after == DataOf(id)'
              R == Len(NonBlankCells(SourceOf(id)))
          IN
          /\ after # before =>
                 /\ Len(before) % 100 = 0
                 /\ Len(after) = IF R - Len(before) < 100 THEN R ELSE Len(before) + 100
                 /\ Len(after) > Len(before)
                 /\ SubSeq(after, 1, Len(before)) = before
                 /\ after = SubSeq(Produced(id, SourceOf(id)), 1, Len(after))
          /\ (id \in DOMAIN fileProcessing' /\ fileProcessing'[id].status = COMPLETED) =>
                 Len(after) = R]_vars

\* the wide workbook is COMPLETED with more than 100 and fewer than 200
\* records: two batches, the second not full
C30_Witness ==
    \E id \in DOMAIN fileProcessing :
        /\ SourceOf(id) = "wide"
        /\ StatusOf(id) = COMPLETED
        /\ Len(DataOf(id)) > 100 /\ Len(DataOf(id)) < 200

\* ------------------------------------------------------------------- frame
\* C31: a step of a delivery attempt (the queue job is active before or
\* after the step, and changes) leaves the row and the records of every file
\* but the job's own as they were, and creates and deletes no row.
C31_AttemptTouchesOwnFileOnly ==
    [][\A e \in DOMAIN queue :
          (/\ queue'[e] # queue[e]
           /\ queue[e].state = "active" \/ queue'[e].state = "active")
          => /\ DOMAIN fileProcessing' = DOMAIN fileProcessing
             /\ \A id \in DOMAIN fileProcessing :
                    id # queue[e].data.fileProcessingId =>
                        /\ fileProcessing'[id] = fileProcessing[id]
                        /\ DataOf(id)' = DataOf(id)]_vars

\* the second file is being processed, with records stored, while the first
\* file has its own records
C31_Witness ==
    \E e \in DOMAIN queue :
        /\ queue[e].state = "active"
        /\ queue[e].data.fileProcessingId = 2
        /\ DataOf(2) # <<>>
        /\ 1 \in DOMAIN fileProcessing /\ DataOf(1) # <<>>

\* -------------------------------------------------------------- queue jobs
\* the queue jobs that will be, or are being, handed to the handler
Live == {e \in DOMAIN queue : queue[e].state \in {"waiting", "delayed", "active"}}

\* C32: no two live queue jobs (waiting, delayed for backoff, or active) are
\* for the same file.
C32_OneLiveEntryPerFile ==
    \A e1, e2 \in Live :
        e1 # e2 => queue[e1].data.fileProcessingId # queue[e2].data.fileProcessingId

\* ---------------------------------------------------------------- progress
\* C33: under fair scheduling a file that is PENDING is COMPLETED or FAILED
\* (or deleted) at some later time.
C33_PendingEventuallySettles ==
    \A id \in JobIds :
        (id \in DOMAIN fileProcessing /\ fileProcessing[id].status = PENDING)
            ~> (id \notin DOMAIN fileProcessing
                \/ fileProcessing[id].status \in {COMPLETED, FAILED})

\* ----------------------------------------------------------------- PENDING
\* C34: a file whose status is PENDING has no records, and its totalRows and
\* processedRows are null.
C34_PendingHasNothing ==
    \A id \in DOMAIN fileProcessing :
        fileProcessing[id].status = PENDING =>
            /\ DataOf(id) = <<>>
            /\ fileProcessing[id].totalRows = Null
            /\ fileProcessing[id].processedRows = Null

\* --------------------------------------------- COMPLETED against the source
\* the record of the non-blank cell x = <<r, c>> of the source, as the source
\* gives it: row of the sheet, name of the column, text and type of the cell
CellRecord(src, x) ==
    LET cell == CellAt(Sheet(src)[x[1] + 1], x[2])
    IN  [rowNumber |-> x[1] + 1, columnName |-> Header(src)[x[2]].text,
         value |-> cell.text, dataType |-> cell.type]

\* the same four attributes of a stored record
Stored(d) ==
    [rowNumber |-> d.rowNumber, columnName |-> d.columnName,
     value |-> d.value, dataType |-> d.dataType]

\* C35: whenever a file is COMPLETED its stored records are exactly the
\* non-blank cells of its source: as many records as cells, and every cell's
\* record is stored as often as the source has it (none missing, none extra,
\* none twice).
C35_CompletedIsTheSource ==
    \A id \in DOMAIN fileProcessing :
        (StatusOf(id) = COMPLETED /\ fileProcessing[id].fileUrl \in DOMAIN uploads) =>
            LET src == SourceOf(id)
                data == DataOf(id)
                cells == NonBlankCells(src)
            IN
            /\ Len(data) = Len(cells)
            /\ \A a \in 1..Len(cells) :
                   Cardinality({b \in 1..Len(data) : Stored(data[b]) = CellRecord(src, cells[a])})
                     = Cardinality({b \in 1..Len(cells) :
                                       CellRecord(src, cells[b]) = CellRecord(src, cells[a])})

\* ----------------------------------------------------------- processedRows
\* C36: once processedRows of a file is set, no step stores a lower value;
\* only the reset of an explicit retry takes it back (to null).
C36_ProcessedRowsNeverDecreases ==
    [][\A id \in DOMAIN fileProcessing :
          (/\ id \in DOMAIN fileProcessing'
           /\ fileProcessing[id].processedRows # Null
           /\ fileProcessing'[id].processedRows # Null)
          => fileProcessing'[id].processedRows[1] >= fileProcessing[id].processedRows[1]]_vars

\* ------------------------------------------------------------ after delete
\* the ids given out whose row is gone: the files that were deleted
Deleted == {id \in 1..(nextId - 1) : id \notin DOMAIN fileProcessing}

\* C37: a deleted file has no row and no record, now and after every step,
\* and a step of a queue job of a deleted file writes nothing to the store
\* and does not complete the job.
C37_DeletedStaysDeleted ==
    [][\A id \in Deleted :
          /\ DataOf(id) = <<>>
          /\ id \notin DOMAIN fileProcessing'
          /\ \A k \in DOMAIN processedData' : processedData'[k].fileProcessingId # id
          /\ \A e \in DOMAIN queue :
                 (queue[e].data.fileProcessingId = id /\ queue'[e] # queue[e])
                 => /\ fileProcessing' = fileProcessing
                    /\ processedData' = processedData
                    /\ queue'[e].state # "completed"]_vars

\* a file was deleted while a worker was inserting its records: the first
\* batch of the wide sheet was stored before the delete, and the second was
\* refused after it
C37_Witness ==
    \E e \in DOMAIN queue :
        /\ queue[e].data.fileProcessingId \in Deleted
        /\ queue[e].pc = "catch"
        /\ queue[e].error = FK_ERROR
        /\ queue[e].i > 0


\* ------------------------------------------------------- the source file
\* C38: the source file of a file that is PENDING, IN_PROGRESS or FAILED is
\* in the uploads directory.
C38_SourceFileKept ==
    \A id \in DOMAIN fileProcessing :
        fileProcessing[id].status \in {PENDING, IN_PROGRESS, FAILED}
            => fileProcessing[id].fileUrl \in DOMAIN uploads

====
